---- MODULE Spec2Model ----
(***************************************************************************)
(* The project store (ProjectState), its listener registry and the two     *)
(* ProjectList views of the drag-and-drop project manager.                 *)
(*                                                                         *)
(* Project objects live on a heap and are shared by reference: the store's *)
(* array, the arrays handed to listeners and the lists' filtered arrays    *)
(* hold references (heap indices), as JavaScript arrays of objects do.     *)
(* A store operation runs to completion before the next event: its         *)
(* listener loop is unfolded into steps on `stack`, and no other handler   *)
(* is enabled while the stack is non-empty.                                *)
(***************************************************************************)
EXTENDS Integers, Sequences, FiniteSets, TLC

\* ------------------------------------------------------------------ bounds
MaxProjects == 3
MaxListeners == 2
MaxRandom == 2
MaxOps == 4
MaxSubmits == 2
MaxDepth == 2

\* --------------------------------------------------------------- constants
\* enum ProjectStatus { Active, Finished }
Active == 0
Finished == 1
ProjectStatus == {Active, Finished}

\* Array.prototype.find yields undefined when nothing matches; no heap
\* reference is 0.
Undefined == 0

\* The two ProjectList instances' `type`, and the listener each registers.
ListTypes == {"active", "finished"}
\* A listener other than the lists': any function (items: Project[]) => void.
Probes == {"probe"}
Callbacks == ListTypes \cup Probes

\* Values Math.random() may return, in tenths: k stands for k/10.
MathRandom == 0 .. (MaxRandom - 1)

DigitChars == <<"1", "2", "3", "4", "5", "6", "7", "8", "9">>

\* Number.prototype.toString on a value of MathRandom.
NumberToString(k) == IF k = 0 THEN "0" ELSE "0." \o DigitChars[k]

\* What a caller passes to addProject.
UserInputs ==
  { [title |-> "Build CLI", description |-> "desc long enough", people |-> 3],
    [title |-> "Write docs", description |-> "desc long enough", people |-> 1] }

\* Strings a drag payload or a caller may give as a project id.
ProjectIds == {NumberToString(k) : k \in MathRandom} \cup {"", "nonexistent-id"}

VARIABLES
  heap,             \* the Project objects, by reference (allocation order)
  projects,         \* ProjectState.projects: references
  listeners,        \* State.listeners: callbacks
  lists,            \* the ProjectList instances constructed so far (by type)
  assignedProjects, \* ProjectList.assignedProjects, per list
  held,             \* per probe: the array its last invocation received
  stack,            \* running updateListeners loops: [i: next listener index]
  event,            \* the platform event whose handler runs or ran last
  op,               \* history: the store operation that runs or ran last
  delivered,        \* history: per callback, the array it was last handed
                    \* and whether it has edited an array it was handed
  rendered,         \* per list: the projects of the cards in its <ul>
  drag,             \* the drag in progress, as the platform keeps it
  droppable,        \* the lists whose <ul> has the class "droppable"
  instance,         \* ProjectState.instance (static)
  projectState,     \* the module's constant projectState
  constructed,      \* history: runs of the ProjectState constructor
  returned,         \* history: what the last getInstance call returned
  subscribed,       \* history: the callbacks passed to addListener, in order
  nOps,             \* history: store operations started since Init
  nCreate,          \* history: addProject calls
  nChanged,         \* history: moveProject calls that found a differing status
  nBroadcast        \* history: updateListeners runs

vars == <<heap, projects, listeners, lists, assignedProjects, held, stack,
          event, op, delivered, rendered, drag, droppable, instance,
          projectState, constructed, returned, subscribed, nOps, nCreate,
          nChanged, nBroadcast>>

staticVars == <<instance, projectState, constructed, returned>>
dragVars == <<drag, droppable>>

\* ------------------------------------------------------------------ helpers
\* new Project(id, description, title, ...): two arguments exchanged.
ProjectSwapped(id, title, description, people, status) ==
  [id |-> id, title |-> description, description |-> title,
   people |-> people, status |-> status]

\* new Project(id, title, description, people, status)
Project(id, title, description, people, status) ==
  [id |-> id, title |-> title, description |-> description,
   people |-> people, status |-> status]

\* The (id, status) pairs an array of references shows, in order.
View(arr, h) == [k \in 1 .. Len(arr) |-> <<h[arr[k]].id, h[arr[k]].status>>]

RECURSIVE FilterRefs(_, _, _)
\* Array.prototype.filter by status over an array of references.
FilterRefs(arr, h, status) ==
  IF arr = <<>> THEN <<>>
  ELSE LET rest == FilterRefs(Tail(arr), h, status)
       IN IF h[Head(arr)].status = status THEN <<Head(arr)>> \o rest ELSE rest

\* An array value: its own storage, or the store's array itself.
OwnArray(items) == [alias |-> FALSE, items |-> items]
StoreArray == [alias |-> TRUE, items |-> <<>>]
ArrayItems(a) == IF a.alias THEN projects ELSE a.items

\* A value of type string | number. A string is the sequence of its
\* characters; a number is an integer or NaN.
StringValue(s) == [type |-> "string", s |-> s, nan |-> FALSE, n |-> 0]
NumberValue(n) == [type |-> "number", s |-> <<>>, nan |-> FALSE, n |-> n]
NaN == [type |-> "number", s |-> <<>>, nan |-> TRUE, n |-> 0]

\* A Validatable: the optional bounds are {} when absent and {k} when k.
Validatable(value, required, minLength, maxLength, min, max) ==
  [value |-> value, required |-> required, minLength |-> minLength,
   maxLength |-> maxLength, min |-> min, max |-> max]

\* No event: a store operation called directly. `defaultPrevented` and
\* `droppableBefore` are history of the handler's run; for a submit, `input`
\* is what the three fields held and `alerted` whether alert() was called;
\* for a call of validate, its argument and its result; for a moveProject
\* that undoes the one before it, `before` is the store's (id, status)
\* sequence and the number of broadcasts before the two calls.
NoEvent ==
  [type |-> "none", target |-> "none", data |-> "",
   defaultPrevented |-> FALSE, droppableBefore |-> {},
   input |-> [title |-> <<>>, description |-> <<>>, people |-> <<>>],
   alerted |-> FALSE,
   validatable |-> Validatable(StringValue(<<>>), FALSE, {}, {}, {}, {}),
   result |-> TRUE,
   before |-> [view |-> <<>>, broadcasts |-> 0]]

\* No drag in progress. `items` is the DataTransfer's list of
\* [type, value]; `source` the dragged card ([list, project]) or NoCard;
\* `over` the list the pointer is over and `accepted` whether that list's
\* last dragover was cancelled (preventDefault), which permits a drop.
NoCard == [list |-> "none", project |-> Undefined]
NoDrag ==
  [phase |-> "idle", source |-> NoCard, items |-> <<>>,
   effectAllowed |-> "uninitialized", over |-> "none", accepted |-> FALSE]
\* The store of the earlier revision of ProjectState, run on the same calls
\* (with the same Math.random results): its Project objects, under the same
\* references, and whether its last call ran updateListeners.
NoEarlier == [heap |-> <<>>, broadcast |-> FALSE]

\* History: no store operation has run.
NoOp ==
  [kind |-> "none", projectId |-> "", newStatus |-> Active,
   input |-> [title |-> "", description |-> "", people |-> 0],
   preHeap |-> <<>>, preProjects |-> <<>>, preListeners |-> <<>>,
   invoked |-> <<>>, bcasts |-> 0, earlier |-> NoEarlier]

Idle == stack = <<>>

\* The state of the process before project-state.ts has run.
Init ==
  /\ heap = <<>>
  /\ projects = <<>>
  /\ listeners = <<>>
  /\ lists = {}
  /\ assignedProjects = [t \in ListTypes |-> <<>>]
  /\ held = [p \in Probes |-> OwnArray(<<>>)]
  /\ stack = <<>>
  /\ event = NoEvent
  /\ op = NoOp
  /\ delivered = [c \in Callbacks |->
                    [got |-> FALSE, snap |-> <<>>, edited |-> FALSE]]
  /\ rendered = [t \in ListTypes |-> <<>>]
  /\ drag = NoDrag
  /\ droppable = {}
  /\ instance = Undefined
  /\ projectState = Undefined
  /\ constructed = 0
  /\ returned = Undefined
  /\ subscribed = <<>>
  /\ nOps = 0
  /\ nCreate = 0
  /\ nChanged = 0
  /\ nBroadcast = 0

\* ------------------------------------------------------- store operations
\* Array.prototype.unshift in the place of push.
Unshift(arr, x) == <<x>> \o arr

\* Array.prototype.push
Push(arr, x) == Append(arr, x)

\* The array itself in the place of a copy of it.
SliceShared(arr) == StoreArray

\* History: the calls (indices of op.invoked) made by the updateListeners
\* loop that ran last at depth d of the stack: the calls at that depth since
\* the listener whose call started the loop was called.
LastLoop(d) ==
  LET outer == {k \in 1 .. Len(op.invoked) : op.invoked[k].depth < d}
  IN {k \in 1 .. Len(op.invoked) :
        /\ op.invoked[k].depth = d
        /\ \A j \in outer : j < k}

\* The calls the loop at the top of the stack has made so far.
RunningLoop == LastLoop(Len(stack))

\* const copy = this.projects.slice() before the loop: every listener of the
\* loop is handed the sequence as it was when the loop started.
SliceBeforeLoop(arr) ==
  IF RunningLoop = {}
  THEN OwnArray(arr)
  ELSE OwnArray(op.invoked[CHOOSE k \in RunningLoop :
                             \A j \in RunningLoop : k <= j].snap)

\* One copy made before the loop and handed to every listener: a listener
\* is handed the array the listener before it was handed and kept.
SliceOncePerBroadcast(arr) ==
  IF op.invoked # <<>> /\ op.invoked[Len(op.invoked)].cb \in Probes
  THEN held[op.invoked[Len(op.invoked)].cb]
  ELSE OwnArray(arr)

\* A copy of the sequence as it was when the operation started.
SlicePrevious(arr) == OwnArray(op.preProjects)

\* Array.prototype.slice(): a new array with the same references.
Slice(arr) == OwnArray(arr)

\* this.projects.find(prj => prj.id === projectId): the first match.
Find(arr, h, projectId) ==
  LET hits == {k \in 1 .. Len(arr) : h[arr[k]].id = projectId}
  IN IF hits = {} THEN Undefined
     ELSE arr[CHOOSE k \in hits : \A j \in hits : k <= j]

\* if (project): the status is not compared.
MoveOutcomeFoundOnly(project, newStatus) ==
  IF project = Undefined THEN "skip" ELSE "update"

\* if (project && project.status === newStatus): the comparison inverted.
MoveOutcomeInverted(project, newStatus) ==
  IF project = Undefined THEN "skip"
  ELSE IF heap[project].status = newStatus THEN "update" ELSE "skip"

\* if (project.status !== newStatus): undefined is dereferenced.
MoveOutcomeUnguarded(project, newStatus) ==
  IF project = Undefined THEN "TypeError"
  ELSE IF heap[project].status # newStatus THEN "update" ELSE "skip"

\* if (project && project.status !== newStatus): "update" runs the body,
\* "skip" does not; reading .status of undefined would be a TypeError.
MoveOutcome(project, newStatus) ==
  IF project = Undefined THEN "skip"
  ELSE IF heap[project].status # newStatus THEN "update" ELSE "skip"

\* History of a starting store operation.
StartOp(kind, projectId, newStatus, input) ==
  [kind |-> kind, projectId |-> projectId, newStatus |-> newStatus,
   input |-> input, preHeap |-> heap, preProjects |-> projects,
   preListeners |-> listeners, invoked |-> <<>>, bcasts |-> 0,
   earlier |-> [op.earlier EXCEPT !.broadcast = FALSE]]

\* The earlier revision's addProject: the same push, then updateListeners.
EarlierAddProject(earlier, newProject) ==
  [heap |-> Append(earlier.heap, newProject), broadcast |-> TRUE]

\* addListener that ignores a callback it already has.
AddListenerDedup(listenerFn) ==
  /\ Idle
  /\ nOps < MaxOps
  /\ Len(listeners) < MaxListeners
  /\ listeners' = IF \E k \in 1 .. Len(listeners) : listeners[k] = listenerFn
                  THEN listeners
                  ELSE Push(listeners, listenerFn)
  /\ subscribed' = Append(subscribed, listenerFn)
  /\ op' = StartOp("addListener", "", Active, NoOp.input)
  /\ nOps' = nOps + 1
  /\ UNCHANGED <<heap, projects, stack, delivered, nCreate, nChanged,
                 nBroadcast, staticVars>>

\* addListener that also runs updateListeners.
AddListenerAndNotify(listenerFn) ==
  /\ Idle
  /\ nOps < MaxOps
  /\ Len(listeners) < MaxListeners
  /\ listeners' = Push(listeners, listenerFn)
  /\ subscribed' = Append(subscribed, listenerFn)
  /\ stack' = <<[i |-> 1]>>
  /\ op' = StartOp("addListener", "", Active, NoOp.input)
  /\ nOps' = nOps + 1
  /\ UNCHANGED <<heap, projects, delivered, nCreate, nChanged, nBroadcast,
                 staticVars>>

\* addListener(listenerFn)
AddListener(listenerFn) ==
  /\ Idle
  /\ nOps < MaxOps
  /\ Len(listeners) < MaxListeners
  /\ listeners' = Push(listeners, listenerFn)
  /\ subscribed' = Append(subscribed, listenerFn)
  /\ op' = StartOp("addListener", "", Active, NoOp.input)
  /\ nOps' = nOps + 1
  /\ UNCHANGED <<heap, projects, stack, delivered, nCreate, nChanged,
                 nBroadcast, staticVars>>

\* addProject without its call of updateListeners.
AddProjectNoNotify(title, description, numOfPeople) ==
  /\ Idle
  /\ nOps < MaxOps
  /\ Len(heap) < MaxProjects
  /\ \E r \in MathRandom :
       /\ heap' = Append(heap, [id |-> NumberToString(r), title |-> title,
                                description |-> description,
                                people |-> numOfPeople, status |-> Active])
       /\ projects' = Append(projects, Len(heap) + 1)
  /\ op' = [kind |-> "addProject", projectId |-> "", newStatus |-> Active,
            input |-> [title |-> title, description |-> description,
                       people |-> numOfPeople],
            preHeap |-> heap, preProjects |-> projects,
            preListeners |-> listeners, invoked |-> <<>>, bcasts |-> 0,
            earlier |-> EarlierAddProject(op.earlier, heap'[Len(heap')])]
  /\ nOps' = nOps + 1
  /\ nCreate' = nCreate + 1
  /\ UNCHANGED <<listeners, stack, delivered, nChanged, nBroadcast,
                 subscribed, staticVars>>

\* addProject(title, description, numOfPeople); the call of updateListeners
\* pushes its loop on the stack.
AddProject(title, description, numOfPeople) ==
  /\ Idle
  /\ nOps < MaxOps
  /\ Len(heap) < MaxProjects
  /\ \E r \in MathRandom :
       LET newProject ==
             Project(NumberToString(r), title, description, numOfPeople, Active)
       IN /\ heap' = Append(heap, newProject)
          /\ projects' = Push(projects, Len(heap) + 1)
  /\ stack' = <<[i |-> 1]>>
  /\ op' = [StartOp("addProject", "", Active,
                    [title |-> title, description |-> description,
                     people |-> numOfPeople])
              EXCEPT !.earlier = EarlierAddProject(op.earlier,
                                                   heap'[Len(heap')])]
  /\ nOps' = nOps + 1
  /\ nCreate' = nCreate + 1
  /\ UNCHANGED <<listeners, delivered, nChanged, nBroadcast, subscribed,
                 staticVars>>

\* History: the lookup of projectId finds a project whose status is not
\* newStatus (stated on the array, independently of MoveOutcome).
FindsOtherStatus(arr, h, projectId, newStatus) ==
  \E k \in 1 .. Len(arr) :
    /\ h[arr[k]].id = projectId
    /\ \A j \in 1 .. (k - 1) : h[arr[j]].id # projectId
    /\ h[arr[k]].status # newStatus

\* An assignment that also clears the number of people.
SetStatusAndPeople(h, project, newStatus) ==
  [h EXCEPT ![project].status = newStatus, ![project].people = 0]

\* project.status = newStatus
SetStatus(h, project, newStatus) == [h EXCEPT ![project].status = newStatus]

\* The earlier moveProject with updateListeners() after the if statement.
EarlierMoveProjectNotifiesAlways(earlier, arr, projectId, newStatus) ==
  LET project == Find(arr, earlier.heap, projectId)
  IN IF project # Undefined
     THEN [heap |-> SetStatus(earlier.heap, project, newStatus),
           broadcast |-> TRUE]
     ELSE [heap |-> earlier.heap, broadcast |-> TRUE]

\* The earlier revision's moveProject: if (project) { project.status =
\* newStatus; this.updateListeners(); }
EarlierMoveProject(earlier, arr, projectId, newStatus) ==
  LET project == Find(arr, earlier.heap, projectId)
  IN IF project # Undefined
     THEN [heap |-> SetStatus(earlier.heap, project, newStatus),
           broadcast |-> TRUE]
     ELSE [heap |-> earlier.heap, broadcast |-> FALSE]

\* moveProject(projectId, newStatus)
MoveProject(projectId, newStatus) ==
  /\ Idle
  /\ nOps < MaxOps
  /\ LET project == Find(projects, heap, projectId)
         outcome == MoveOutcome(project, newStatus)
     IN /\ IF outcome = "update"
           THEN /\ heap' = SetStatus(heap, project, newStatus)
                /\ stack' = <<[i |-> 1]>>
           ELSE UNCHANGED <<heap, stack>>
        /\ op' = [StartOp("moveProject", projectId, newStatus, NoOp.input)
                    EXCEPT !.kind = IF outcome = "TypeError"
                                    THEN "moveProject threw" ELSE @,
                           !.earlier = EarlierMoveProject(op.earlier, projects,
                                                          projectId, newStatus)]
  /\ nOps' = nOps + 1
  /\ nChanged' = nChanged +
       (IF FindsOtherStatus(projects, heap, projectId, newStatus) THEN 1 ELSE 0)
  /\ UNCHANGED <<projects, listeners, delivered, nCreate, nBroadcast,
                 subscribed, staticVars>>

\* ---------------------------------------------------------------- listeners
\* A filter that keeps the Active projects in both lists.
FilterStatusActive(type) == Active

\* The status the listener of the list `type` keeps: Active for 'active',
\* Finished otherwise.
FilterStatus(type) == IF type = "active" THEN Active ELSE Finished

\* renderProjects without `listEl.innerHTML = ''`.
RenderProjectsNoClear(listEl, assigned) == listEl \o assigned

\* renderProjects(): the <ul> (listEl, the cards it holds) is emptied, then
\* one new ProjectItem per assigned project is attached at its end.
RenderProjects(listEl, assigned) ==
  LET innerHTML == <<>>
  IN innerHTML \o assigned

\* A listener that adds the filtered projects to those it already has.
ListListenerAppends(type, arg) ==
  /\ type \in ListTypes
  /\ assignedProjects' =
       [assignedProjects EXCEPT ![type] =
          @ \o FilterRefs(ArrayItems(arg), heap, FilterStatus(type))]
  /\ rendered' = [rendered EXCEPT ![type] =
                    RenderProjects(rendered[type], assignedProjects'[type])]
  /\ UNCHANGED <<heap, projects, held>>

\* The listener a ProjectList registers: filter by its own status into
\* assignedProjects, then renderProjects().
ListListener(type, arg) ==
  /\ type \in ListTypes
  /\ assignedProjects' =
       [assignedProjects EXCEPT ![type] =
          FilterRefs(ArrayItems(arg), heap, FilterStatus(type))]
  /\ rendered' = [rendered EXCEPT ![type] =
                    RenderProjects(rendered[type], assignedProjects'[type])]
  /\ UNCHANGED <<heap, projects, held>>

\* What a listener may do to the array it was handed.
SnapshotEdits == {"keep", "push", "pop", "reverse"}

EditArray(edit, items) ==
  CASE edit = "push" -> IF items = <<>> THEN items ELSE Push(items, items[1])
    [] edit = "pop" -> IF items = <<>> THEN items ELSE SubSeq(items, 1, Len(items) - 1)
    [] edit = "reverse" -> [k \in 1 .. Len(items) |-> items[Len(items) + 1 - k]]
    [] OTHER -> items

\* Any other listener: keeps the array and may push to, pop from or reorder
\* it. An edit of an array that is the store's own edits the store's.
ProbeListener(cb, arg) ==
  /\ cb \in Probes
  /\ \E edit \in SnapshotEdits :
       LET edited == EditArray(edit, ArrayItems(arg))
       IN IF arg.alias
          THEN /\ projects' = edited
               /\ held' = [held EXCEPT ![cb] = arg]
          ELSE /\ held' = [held EXCEPT ![cb] = OwnArray(edited)]
               /\ UNCHANGED projects
  /\ UNCHANGED <<heap, assignedProjects, rendered>>

\* The loop visiting the listeners last to first.
ListenerAtReversed(i) == listeners[Len(listeners) + 1 - i]

\* The i-th listener the for-of loop over this.listeners visits.
ListenerAt(i) == listeners[i]

\* A loop over the listeners there were when the operation started, as
\* Array.prototype.forEach fixes its range before the first call.
HasNextListenerFixed(i) == i <= Len(op.preListeners)

\* for (... of this.listeners): the array iterator compares its index with
\* the array's length at every step, so the loop visits elements pushed
\* while it runs.
HasNextListener(i) == i <= Len(listeners)

\* History of one call of a listener: the callback, the array it was handed
\* (references and what they show), whether the callback had edited an array
\* before, the store's sequence when the call was made, the number of
\* updateListeners loops running, and what the callback called on the store
\* or did ("none", "addProject", "moveProject", "addListener", "throw").
Invocation(listenerFn, arg, call) ==
  [cb |-> listenerFn, snap |-> ArrayItems(arg),
   view |-> View(ArrayItems(arg), heap),
   editedBefore |-> delivered[listenerFn].edited,
   store |-> View(projects, heap), depth |-> Len(stack), call |-> call]

\* One turn of `for (const listenerFn of this.listeners)
\*                listenerFn(this.projects.slice())`.
InvokeListener ==
  /\ ~Idle
  /\ HasNextListener(stack[Len(stack)].i)
  /\ LET listenerFn == ListenerAt(stack[Len(stack)].i)
         arg == Slice(projects)
         got == Invocation(listenerFn, arg, "none")
     IN /\ \/ ListListener(listenerFn, arg)
           \/ ProbeListener(listenerFn, arg)
        /\ delivered' = [delivered EXCEPT ![listenerFn] =
                           [got |-> TRUE, snap |-> got.snap,
                            edited |-> \/ @.edited
                                       \/ projects' # projects
                                       \/ /\ listenerFn \in Probes
                                          /\ held'[listenerFn] # arg]]
        /\ op' = [op EXCEPT !.invoked = Append(@, got)]
  /\ stack' = [stack EXCEPT ![Len(stack)].i = @ + 1]
  /\ UNCHANGED <<listeners, lists, event, nOps, nCreate, nChanged, nBroadcast,
                 subscribed, staticVars, dragVars>>

\* The loop of updateListeners ends and the operation returns.
ReturnFromUpdateListeners ==
  /\ ~Idle
  /\ ~HasNextListener(stack[Len(stack)].i)
  /\ stack' = SubSeq(stack, 1, Len(stack) - 1)
  /\ op' = [op EXCEPT !.bcasts = @ + 1]
  /\ nBroadcast' = nBroadcast + 1
  /\ UNCHANGED <<heap, projects, listeners, lists, assignedProjects, held,
                 event, delivered, nOps, nCreate, nChanged, rendered,
                 subscribed, staticVars, dragVars>>

\* ------------------------------------------------------------------ callers
\* projectState.addListener(fn) for a listener other than a list's.
Subscribe(cb) ==
  /\ cb \in Probes
  /\ projectState # Undefined
  /\ AddListener(cb)
  /\ event' = NoEvent
  /\ UNCHANGED <<lists, assignedProjects, held, rendered, dragVars>>

\* A constructor that also filters the store's projects into the new list.
NewProjectListFiltered(type) ==
  /\ type \notin lists
  /\ projectState # Undefined
  /\ AddListener(type)
  /\ lists' = lists \cup {type}
  /\ assignedProjects' =
       [assignedProjects EXCEPT ![type] =
          FilterRefs(projects, heap, FilterStatus(type))]
  /\ rendered' = [rendered EXCEPT ![type] = assignedProjects'[type]]
  /\ event' = NoEvent
  /\ UNCHANGED <<held, dragVars>>

\* new ProjectList(type): assignedProjects = [], configure() registers the
\* list's listener.
NewProjectList(type) ==
  /\ type \notin lists
  /\ projectState # Undefined
  /\ AddListener(type)
  /\ lists' = lists \cup {type}
  /\ assignedProjects' = [assignedProjects EXCEPT ![type] = <<>>]
  /\ rendered' = [rendered EXCEPT ![type] = <<>>]
  /\ event' = NoEvent
  /\ UNCHANGED <<held, dragVars>>

\* projectState.addProject(title, description, people)
CallAddProject ==
  \E input \in UserInputs :
    /\ projectState # Undefined
    /\ AddProject(input.title, input.description, input.people)
    /\ event' = NoEvent
    /\ UNCHANGED <<lists, assignedProjects, held, rendered, dragVars>>

\* projectState.moveProject(projectId, newStatus)
CallMoveProject ==
  \E projectId \in ProjectIds, newStatus \in ProjectStatus :
    /\ projectState # Undefined
    /\ MoveProject(projectId, newStatus)
    /\ event' = NoEvent
    /\ UNCHANGED <<lists, assignedProjects, held, rendered, dragVars>>

\* The ternary with its branches exchanged.
TargetStatusSwapped(type) == IF type = "active" THEN Finished ELSE Active

\* this.type === 'active' ? ProjectStatus.Active : ProjectStatus.Finished
TargetStatus(type) == IF type = "active" THEN Active ELSE Finished

\* A drop handler that also removes the class from its <ul>.
DropHandlerUnmarks(type, prjId) ==
  /\ type \in lists
  /\ MoveProject(prjId, TargetStatus(type))
  /\ event' = [NoEvent EXCEPT !.type = "drop", !.target = type,
                              !.data = prjId, !.droppableBefore = droppable]
  /\ droppable' = droppable \ {type}
  /\ UNCHANGED <<lists, assignedProjects, held, rendered>>

\* dropHandler(event) of the list `type`, the payload's text/plain data
\* being prjId.
DropHandler(type, prjId) ==
  /\ type \in lists
  /\ MoveProject(prjId, TargetStatus(type))
  /\ event' = [NoEvent EXCEPT !.type = "drop", !.target = type,
                              !.data = prjId, !.droppableBefore = droppable]
  /\ UNCHANGED <<lists, assignedProjects, held, rendered, droppable>>

\* A drop event on the list `type` with any text/plain data.
DropOf(type, prjId) ==
  /\ DropHandler(type, prjId)
  /\ UNCHANGED drag

\* A listener writes the public `status` of a Project it was handed.
ListenerWritesStatus ==
  /\ Idle
  /\ \E cb \in Probes, status \in ProjectStatus :
       \E k \in 1 .. Len(ArrayItems(held[cb])) :
         LET project == ArrayItems(held[cb])[k]
         IN /\ heap[project].status # status
            /\ heap' = [heap EXCEPT ![project].status = status]
  /\ op' = [NoOp EXCEPT !.kind = "status write",
                        !.earlier = [heap |-> heap', broadcast |-> FALSE]]
  /\ event' = NoEvent
  /\ UNCHANGED <<projects, listeners, lists, assignedProjects, held, stack,
                 delivered, nOps, nCreate, nChanged, nBroadcast, rendered,
                 subscribed, staticVars, dragVars>>

\* getInstance without the `if (this.instance)` test: every call constructs.
\* The arrays of the store the components use are those of projectState.
GetInstanceAlwaysNew ==
  /\ constructed < MaxOps
  /\ instance' = constructed + 1
  /\ constructed' = constructed + 1
  /\ returned' = constructed + 1
  /\ IF projectState = Undefined
     THEN projects' = <<>> /\ listeners' = <<>>
     ELSE UNCHANGED <<projects, listeners>>

\* static getInstance(): the instance, constructed by the first call
\* (new ProjectState() has projects = [] and listeners = []).
GetInstance ==
  IF instance # Undefined
  THEN /\ returned' = instance
       /\ UNCHANGED <<instance, constructed, projects, listeners>>
  ELSE /\ instance' = constructed + 1
       /\ constructed' = constructed + 1
       /\ returned' = constructed + 1
       /\ projects' = <<>>
       /\ listeners' = <<>>

\* export const projectState = ProjectState.getInstance(), when the module
\* is loaded: the first access.
LoadProjectState ==
  /\ projectState = Undefined
  /\ GetInstance
  /\ projectState' = returned'
  /\ UNCHANGED <<heap, lists, assignedProjects, held, stack, event, op,
                 delivered, rendered, subscribed, nOps, nCreate, nChanged,
                 nBroadcast, dragVars>>

\* A later ProjectState.getInstance() call.
CallGetInstance ==
  /\ Idle
  /\ projectState # Undefined
  /\ GetInstance
  /\ op' = [NoOp EXCEPT !.kind = "getInstance",
                        !.earlier = [op.earlier EXCEPT !.broadcast = FALSE]]
  /\ event' = NoEvent
  /\ UNCHANGED <<heap, lists, assignedProjects, held, stack, delivered,
                 rendered, subscribed, projectState, nOps, nCreate, nChanged,
                 nBroadcast, dragVars>>

Next ==
  \/ \E cb \in Probes : Subscribe(cb)
  \/ \E type \in ListTypes : NewProjectList(type)
  \/ CallAddProject
  \/ CallMoveProject
  \/ \E type \in ListTypes, prjId \in ProjectIds : DropOf(type, prjId)
  \/ InvokeListener
  \/ ReturnFromUpdateListeners
  \/ ListenerWritesStatus
  \/ LoadProjectState
  \/ CallGetInstance

Spec == Init /\ [][Next]_vars

\* ------------------------------------------------------- the application
\* DataTransfer.setData(format, data): replaces the item of that format or
\* adds one at the end.
SetData(items, format, data) ==
  IF \E k \in 1 .. Len(items) : items[k].type = format
  THEN [k \in 1 .. Len(items) |->
          IF items[k].type = format THEN [type |-> format, value |-> data]
          ELSE items[k]]
  ELSE Append(items, [type |-> format, value |-> data])

\* DataTransfer.getData(format): the data of that format, or "".
GetData(items, format) ==
  IF \E k \in 1 .. Len(items) : items[k].type = format
  THEN items[CHOOSE k \in 1 .. Len(items) : items[k].type = format].value
  ELSE ""

\* DataTransfer.types
Types(items) == [k \in 1 .. Len(items) |-> items[k].type]

\* Drags that do not start on a card: a file, a selection of a page (markup
\* first, then its text), a piece of text.
ForeignPayloads ==
  { <<[type |-> "Files", value |-> ""]>>,
    <<[type |-> "text/html", value |-> "<b>0</b>"],
      [type |-> "text/plain", value |-> "0"]>>,
    <<[type |-> "text/plain", value |-> "nonexistent-id"]>> }

\* A test for text/plain among the types, at any position.
AcceptsDragAnyType(items) ==
  \E k \in 1 .. Len(items) : Types(items)[k] = "text/plain"

\* A dragover handler that accepts every drag.
AcceptsDragAlways(items) == TRUE

\* event.dataTransfer.types[0] === 'text/plain' (types[0] of an empty list
\* is undefined).
AcceptsDrag(items) == items # <<>> /\ Types(items)[1] = "text/plain"

\* A drag event handler runs: no store operation is running, and the
\* store's part of the state is left alone unless the handler calls it.
StoreUntouched ==
  UNCHANGED <<heap, projects, listeners, lists, assignedProjects, held, stack,
              op, delivered, rendered, subscribed, staticVars, nOps, nCreate,
              nChanged, nBroadcast>>

\* dragStartHandler of the k-th card of the list `type`.
DragStart(type, k) ==
  /\ Idle
  /\ drag.phase = "idle"
  /\ k \in 1 .. Len(rendered[type])
  /\ LET project == rendered[type][k]
     IN /\ drag' = [NoDrag EXCEPT
                     !.phase = "dragging",
                     !.source = [list |-> type, project |-> project],
                     !.items = SetData(<<>>, "text/plain", heap[project].id),
                     !.effectAllowed = "move"]
        /\ event' = [NoEvent EXCEPT !.type = "dragstart", !.target = type,
                                    !.droppableBefore = droppable]
  /\ UNCHANGED droppable
  /\ StoreUntouched

\* A drag that starts outside the cards: no handler of the application runs.
DragStartForeign(items) ==
  /\ Idle
  /\ drag.phase = "idle"
  /\ drag' = [NoDrag EXCEPT !.phase = "dragging", !.items = items]
  /\ event' = NoEvent
  /\ UNCHANGED droppable
  /\ StoreUntouched

\* A dragover handler that already requests the move while hovering.
DragOverMoves(type) ==
  /\ drag.phase = "dragging"
  /\ drag.over \in {"none", type}
  /\ LET accepts == AcceptsDrag(drag.items)
     IN /\ drag' = [drag EXCEPT !.over = type, !.accepted = accepts]
        /\ droppable' = IF accepts THEN droppable \cup {type} ELSE droppable
        /\ event' = [NoEvent EXCEPT !.type = "dragover", !.target = type,
                                    !.defaultPrevented = accepts,
                                    !.droppableBefore = droppable]
  /\ MoveProject(GetData(drag.items, "text/plain"), TargetStatus(type))
  /\ UNCHANGED <<lists, assignedProjects, held, rendered>>

\* dragOverHandler of the list `type`. The platform sends dragleave to the
\* element left before dragover to the one entered.
DragOver(type) ==
  /\ Idle
  /\ drag.phase = "dragging"
  /\ drag.over \in {"none", type}
  /\ LET accepts == AcceptsDrag(drag.items)
     IN /\ drag' = [drag EXCEPT !.over = type, !.accepted = accepts]
        /\ droppable' = IF accepts THEN droppable \cup {type} ELSE droppable
        /\ event' = [NoEvent EXCEPT !.type = "dragover", !.target = type,
                                    !.defaultPrevented = accepts,
                                    !.droppableBefore = droppable]
  /\ StoreUntouched

\* dragLeaveHandler of the list `type`.
DragLeave(type) ==
  /\ Idle
  /\ drag.phase = "dragging"
  /\ drag.over = type
  /\ drag' = [drag EXCEPT !.over = "none", !.accepted = FALSE]
  /\ droppable' = droppable \ {type}
  /\ event' = [NoEvent EXCEPT !.type = "dragleave", !.target = type,
                              !.droppableBefore = droppable]
  /\ StoreUntouched

\* The drop event on the list `type`: the platform sends it only to the
\* element whose last dragover was accepted.
Drop(type) ==
  /\ drag.phase = "dragging"
  /\ drag.over = type
  /\ drag.accepted
  /\ DropHandler(type, GetData(drag.items, "text/plain"))
  /\ drag' = [drag EXCEPT !.phase = "dropped"]

\* querySelector in the place of querySelectorAll: the first marked list.
ClearFirstDroppable(marked) ==
  IF "active" \in marked THEN marked \ {"active"} ELSE {}

\* document.querySelectorAll('.droppable').forEach(el =>
\*   el.classList.remove('droppable'))
ClearDroppable(marked) == {}

\* A platform that fires no dragend at a card that a re-render has taken
\* out of the document.
DragEndIfAttached ==
  /\ Idle
  /\ \/ drag.phase = "dropped" /\ (drag.source = NoCard \/ op.bcasts = 0)
     \/ drag.phase = "dragging" /\ drag.over = "none"
  /\ drag' = NoDrag
  /\ droppable' = IF drag.source = NoCard THEN droppable
                  ELSE ClearDroppable(droppable)
  /\ event' = [NoEvent EXCEPT !.type = "dragend",
                              !.target = drag.source.list,
                              !.droppableBefore = droppable]
  /\ StoreUntouched

\* The end of the drag, after a drop or after the pointer has left every
\* list. The platform fires dragend at the source node, in the document or
\* not, and the handler is registered on that node: dragEndHandler of the
\* dragged card runs also when a re-render has replaced the card. A foreign
\* drag has no handler here.
DragEnd ==
  /\ Idle
  /\ \/ drag.phase = "dropped"
     \/ drag.phase = "dragging" /\ drag.over = "none"
  /\ drag' = NoDrag
  /\ droppable' = IF drag.source = NoCard THEN droppable
                  ELSE ClearDroppable(droppable)
  /\ event' = [NoEvent EXCEPT !.type = "dragend",
                              !.target = drag.source.list,
                              !.droppableBefore = droppable]
  /\ StoreUntouched

\* submitHandler with input that passes validation.
SubmitHandler ==
  /\ drag.phase = "idle"
  /\ CallAddProject

\* The state once app.ts has run: new ProjectInput(),
\* new ProjectList('active'), new ProjectList('finished').
InitApp ==
  /\ heap = <<>>
  /\ projects = <<>>
  /\ listeners = <<"active", "finished">>
  /\ lists = {"active", "finished"}
  /\ assignedProjects = [t \in ListTypes |-> <<>>]
  /\ held = [p \in Probes |-> OwnArray(<<>>)]
  /\ stack = <<>>
  /\ event = NoEvent
  /\ op = [NoOp EXCEPT !.kind = "addListener", !.preListeners = <<"active">>]
  /\ delivered = [c \in Callbacks |->
                    [got |-> FALSE, snap |-> <<>>, edited |-> FALSE]]
  /\ rendered = [t \in ListTypes |-> <<>>]
  /\ drag = NoDrag
  /\ droppable = {}
  /\ instance = 1
  /\ projectState = 1
  /\ constructed = 1
  /\ returned = 1
  /\ subscribed = <<"active", "finished">>
  /\ nOps = 0
  /\ nCreate = 0
  /\ nChanged = 0
  /\ nBroadcast = 0

NextApp ==
  \/ SubmitHandler
  \/ \E type \in ListTypes, k \in 1 .. MaxProjects : DragStart(type, k)
  \/ \E items \in ForeignPayloads : DragStartForeign(items)
  \/ \E type \in ListTypes : DragOver(type)
  \/ \E type \in ListTypes : DragLeave(type)
  \/ \E type \in ListTypes : Drop(type)
  \/ DragEnd
  \/ InvokeListener
  \/ ReturnFromUpdateListeners

SpecApp == InitApp /\ [][NextApp]_vars

\* The application with what the platform and the event loop guarantee: a
\* handler that has started runs to completion (the listener loop and its
\* return), the pointer does not stay over a list forever, and every drag
\* ends with the dragend event.
FairApp ==
  /\ WF_vars(InvokeListener)
  /\ WF_vars(ReturnFromUpdateListeners)
  /\ WF_vars(\E type \in ListTypes : DragLeave(type))
  /\ SF_vars(DragEnd)

SpecAppFair == SpecApp /\ FairApp

\* --------------------------------------------------------------- the form
\* White space as String.prototype.trim and the Number conversion see it.
WhiteSpace == {" ", "\t", "\n"}

RECURSIVE TrimStart(_)
TrimStart(s) ==
  IF s # <<>> /\ Head(s) \in WhiteSpace THEN TrimStart(Tail(s)) ELSE s

RECURSIVE TrimEnd(_)
TrimEnd(s) ==
  IF s # <<>> /\ s[Len(s)] \in WhiteSpace
  THEN TrimEnd(SubSeq(s, 1, Len(s) - 1))
  ELSE s

\* String.prototype.trim
Trim(s) == TrimEnd(TrimStart(s))

\* The decimal digits and their values.
Digits == <<"0", "1", "2", "3", "4", "5", "6", "7", "8", "9">>
DigitValue(c) == (CHOOSE k \in 1 .. Len(Digits) : Digits[k] = c) - 1
IsDigit(c) == \E k \in 1 .. Len(Digits) : Digits[k] = c

RECURSIVE DecimalValue(_)
DecimalValue(s) ==
  IF s = <<>> THEN 0
  ELSE 10 * DecimalValue(SubSeq(s, 1, Len(s) - 1)) + DigitValue(s[Len(s)])

\* +enteredPeople: the string's number: 0 for a blank string, the value of
\* a run of digits between white space, NaN for the other strings here.
ToNumber(s) ==
  LET t == Trim(s)
  IN IF t = <<>> THEN NumberValue(0)
     ELSE IF \A k \in 1 .. Len(t) : IsDigit(t[k])
          THEN NumberValue(DecimalValue(t))
          ELSE NaN

RECURSIVE NaturalToString(_)
NaturalToString(n) ==
  IF n < 10 THEN <<Digits[n + 1]>>
  ELSE NaturalToString(n \div 10) \o <<Digits[(n % 10) + 1]>>

\* value.toString()
ValueToString(value) ==
  IF value.type = "string" THEN value.s
  ELSE IF value.nan THEN <<"N", "a", "N">>
  ELSE IF value.n < 0 THEN <<"-">> \o NaturalToString(-value.n)
  ELSE NaturalToString(value.n)

\* value >= k and value <= k on numbers: false when the value is NaN.
AtLeast(value, k) == ~value.nan /\ value.n >= k
AtMost(value, k) == ~value.nan /\ value.n <= k

\* The bound of an optional field that is present.
Some(opt) == CHOOSE k \in opt : TRUE

\* validate with the range checks applied to every value.
ValidateUntyped(v) ==
  LET value == v.value
      afterRequired ==
        IF v.required THEN Len(Trim(ValueToString(value))) # 0 ELSE TRUE
      afterMinLength ==
        IF v.minLength # {} /\ value.type = "string"
        THEN afterRequired /\ Len(value.s) >= Some(v.minLength)
        ELSE afterRequired
      afterMaxLength ==
        IF v.maxLength # {} /\ value.type = "string"
        THEN afterMinLength /\ Len(value.s) <= Some(v.maxLength)
        ELSE afterMinLength
      afterMin ==
        IF v.min # {}
        THEN afterMaxLength /\ AtLeast(ToNumber(ValueToString(value)), Some(v.min))
        ELSE afterMaxLength
      afterMax ==
        IF v.max # {}
        THEN afterMin /\ AtMost(ToNumber(ValueToString(value)), Some(v.max))
        ELSE afterMin
  IN afterMax

\* validate(validatableInput): isValid after each of the five if statements.
Validate(v) ==
  LET value == v.value
      afterRequired ==
        IF v.required THEN Len(Trim(ValueToString(value))) # 0 ELSE TRUE
      afterMinLength ==
        IF v.minLength # {} /\ value.type = "string"
        THEN afterRequired /\ Len(value.s) >= Some(v.minLength)
        ELSE afterRequired
      afterMaxLength ==
        IF v.maxLength # {} /\ value.type = "string"
        THEN afterMinLength /\ Len(value.s) <= Some(v.maxLength)
        ELSE afterMinLength
      afterMin ==
        IF v.min # {} /\ value.type = "number"
        THEN afterMaxLength /\ AtLeast(value, Some(v.min))
        ELSE afterMaxLength
      afterMax ==
        IF v.max # {} /\ value.type = "number"
        THEN afterMin /\ AtMost(value, Some(v.max))
        ELSE afterMin
  IN afterMax

\* gatherUserInput with a description accepted from 4 characters on.
GatherUserInputShort(enteredTitle, enteredDescription, enteredPeople) ==
  LET titleValidatable ==
        Validatable(StringValue(enteredTitle), TRUE, {}, {}, {}, {})
      descriptionValidatable ==
        Validatable(StringValue(enteredDescription), TRUE, {4}, {}, {}, {})
      peopleValidatable ==
        Validatable(ToNumber(enteredPeople), TRUE, {}, {}, {1}, {5})
  IN IF \/ ~Validate(titleValidatable)
        \/ ~Validate(descriptionValidatable)
        \/ ~Validate(peopleValidatable)
     THEN [alerted |-> TRUE, userInput |-> {}]
     ELSE [alerted |-> FALSE,
           userInput |-> {[title |-> enteredTitle,
                           description |-> enteredDescription,
                           people |-> ToNumber(enteredPeople).n]}]

\* gatherUserInput(): the tuple [title, description, +people] (userInput =
\* {tuple}) when the three validate calls succeed, otherwise alert() and
\* nothing (userInput = {}).
GatherUserInput(enteredTitle, enteredDescription, enteredPeople) ==
  LET titleValidatable ==
        Validatable(StringValue(enteredTitle), TRUE, {}, {}, {}, {})
      descriptionValidatable ==
        Validatable(StringValue(enteredDescription), TRUE, {5}, {}, {}, {})
      peopleValidatable ==
        Validatable(ToNumber(enteredPeople), TRUE, {}, {}, {1}, {5})
  IN IF \/ ~Validate(titleValidatable)
        \/ ~Validate(descriptionValidatable)
        \/ ~Validate(peopleValidatable)
     THEN [alerted |-> TRUE, userInput |-> {}]
     ELSE [alerted |-> FALSE,
           userInput |-> {[title |-> enteredTitle,
                           description |-> enteredDescription,
                           people |-> ToNumber(enteredPeople).n]}]

\* What the user may have typed into the three fields.
EnteredTitles == {<<>>, <<" ">>, <<" ", "a">>}
EnteredDescriptions ==
  { <<" ", " ", " ", " ", " ">>, <<"a", "b", "c", "d">>,
    <<"a", "b", "c", "d", "e">>, <<" ", "a", "b", " ", " ">> }
EnteredPeople == {<<>>, <<"0">>, <<"1">>, <<" ", "5">>, <<"6">>, <<"a">>}

\* submitHandler(event): gatherUserInput(), and when it returned a tuple,
\* projectState.addProject(title, description, people).
Submit(enteredTitle, enteredDescription, enteredPeople) ==
  LET gathered ==
        GatherUserInput(enteredTitle, enteredDescription, enteredPeople)
      submit == [NoEvent EXCEPT
                   !.type = "submit", !.target = "form",
                   !.defaultPrevented = TRUE,
                   !.input = [title |-> enteredTitle,
                              description |-> enteredDescription,
                              people |-> enteredPeople],
                   !.alerted = gathered.alerted]
  IN /\ Idle
     /\ event' = submit
     /\ IF gathered.userInput # {}
        THEN LET userInput == Some(gathered.userInput)
             IN /\ Len(heap) < MaxSubmits
                /\ AddProject(userInput.title, userInput.description,
                              userInput.people)
        ELSE UNCHANGED <<heap, projects, listeners, stack, op, delivered,
                         subscribed, staticVars, nOps, nCreate, nChanged,
                         nBroadcast>>
     /\ UNCHANGED <<lists, assignedProjects, held, rendered, dragVars>>

\* The arguments validate is called with here: strings and numbers, each
\* with every combination of constraints.
ValidatableValues ==
  { StringValue(<<>>), StringValue(<<" ">>), StringValue(<<"a", "b">>),
    StringValue(<<"a", "b", "c", "d">>), StringValue(<<"3">>),
    NumberValue(0), NumberValue(3), NumberValue(6), NaN }

Validatables ==
  { Validatable(value, required, minLength, maxLength, min, max) :
      value \in ValidatableValues, required \in BOOLEAN,
      minLength \in {{}, {2}}, maxLength \in {{}, {3}},
      min \in {{}, {1}}, max \in {{}, {5}} }

\* A call validate(v).
CallValidate(v) ==
  /\ Idle
  /\ event' = [NoEvent EXCEPT !.type = "validate", !.validatable = v,
                              !.result = Validate(v)]
  /\ UNCHANGED <<heap, projects, listeners, lists, assignedProjects, held,
                 stack, op, delivered, rendered, subscribed, staticVars,
                 dragVars, nOps, nCreate, nChanged, nBroadcast>>

NextForm ==
  \/ \E enteredTitle \in EnteredTitles,
        enteredDescription \in EnteredDescriptions,
        enteredPeople \in EnteredPeople :
        Submit(enteredTitle, enteredDescription, enteredPeople)
  \/ InvokeListener
  \/ ReturnFromUpdateListeners

\* The application's form alone: submits and the broadcasts they start.
SpecForm == InitApp /\ [][NextForm]_vars

NextValidate == \E v \in Validatables : CallValidate(v)

\* The function validate alone, applied to any of the arguments.
SpecValidate == InitApp /\ [][NextValidate]_vars

\* The store alone, under the application's two lists: addProject and
\* moveProject calls and the broadcasts they start.
NextStore ==
  \/ CallAddProject
  \/ CallMoveProject
  \/ InvokeListener
  \/ ReturnFromUpdateListeners

SpecStore == InitApp /\ [][NextStore]_vars

\* --------------------------------------------------------- there and back
\* moveProject(id, s) called right after moveProject(id, other) has
\* returned, where the first call found a project of status s, not other.
CallMoveProjectBack ==
  /\ Idle
  /\ op.kind = "moveProject"
  /\ FindsOtherStatus(op.preProjects, op.preHeap, op.projectId, op.newStatus)
  /\ LET s == op.preHeap[Find(op.preProjects, op.preHeap, op.projectId)].status
     IN MoveProject(op.projectId, s)
  /\ event' = [NoEvent EXCEPT
                 !.type = "moveProject back",
                 !.before = [view |-> View(op.preProjects, op.preHeap),
                             broadcasts |-> nBroadcast - op.bcasts]]
  /\ UNCHANGED <<lists, assignedProjects, held, rendered, dragVars>>

\* The store under the application's two lists, with callers that undo a
\* moveProject by the opposite one.
NextRoundTrip ==
  \/ CallAddProject
  \/ CallMoveProject
  \/ CallMoveProjectBack
  \/ InvokeListener
  \/ ReturnFromUpdateListeners

SpecRoundTrip == InitApp /\ [][NextRoundTrip]_vars

\* ------------------------------------------------- re-entrant listeners
\* A try statement around the call of the listener: the loop goes on.
UnwindCaught(stk) == [stk EXCEPT ![Len(stk)].i = @ + 1]

\* An exception raised by a listener leaves every loop that is running:
\* updateListeners, addProject and moveProject have no try statement, and
\* the listeners below it on the call stack do not catch it.
Unwind(stk) == <<>>

\* The listener's call returns: the loop that called it moves on.
Advance(stk) == [stk EXCEPT ![Len(stk)].i = @ + 1]

\* One turn of the loop of updateListeners in which the listener, a callback
\* other than a list's, keeps the array and then calls addProject,
\* moveProject or addListener on the store, or raises. A call of addProject
\* or of a changing moveProject runs updateListeners inside the callback:
\* its loop is pushed on the stack above the loop that called the listener.
InvokeReentrantListener ==
  /\ ~Idle
  /\ HasNextListener(stack[Len(stack)].i)
  /\ ListenerAt(stack[Len(stack)].i) \in Probes
  /\ LET listenerFn == ListenerAt(stack[Len(stack)].i)
         arg == Slice(projects)
     IN /\ held' = [held EXCEPT ![listenerFn] = arg]
        /\ delivered' = [delivered EXCEPT ![listenerFn] =
                           [got |-> TRUE, snap |-> ArrayItems(arg),
                            edited |-> @.edited]]
        /\ \/ \E input \in UserInputs, r \in MathRandom :
                LET newProject ==
                      Project(NumberToString(r), input.title,
                              input.description, input.people, Active)
                IN /\ nOps < MaxOps
                   /\ Len(heap) < MaxProjects
                   /\ Len(stack) < MaxDepth
                   /\ heap' = Append(heap, newProject)
                   /\ projects' = Push(projects, Len(heap) + 1)
                   /\ stack' = Append(Advance(stack), [i |-> 1])
                   /\ op' = [op EXCEPT
                              !.invoked =
                                Append(@, Invocation(listenerFn, arg, "addProject")),
                              !.earlier = EarlierAddProject(@, newProject)]
                   /\ nOps' = nOps + 1
                   /\ nCreate' = nCreate + 1
                   /\ UNCHANGED <<listeners, subscribed, nChanged>>
           \/ \E projectId \in ProjectIds, newStatus \in ProjectStatus :
                LET project == Find(projects, heap, projectId)
                    outcome == MoveOutcome(project, newStatus)
                IN /\ nOps < MaxOps
                   /\ IF outcome = "update"
                      THEN /\ Len(stack) < MaxDepth
                           /\ heap' = SetStatus(heap, project, newStatus)
                           /\ stack' = Append(Advance(stack), [i |-> 1])
                      ELSE /\ heap' = heap
                           /\ stack' = Advance(stack)
                   /\ op' = [op EXCEPT
                              !.invoked =
                                Append(@, Invocation(listenerFn, arg, "moveProject")),
                              !.earlier = EarlierMoveProject(@, projects,
                                                             projectId, newStatus)]
                   /\ nOps' = nOps + 1
                   /\ nChanged' = nChanged +
                        (IF FindsOtherStatus(projects, heap, projectId, newStatus)
                         THEN 1 ELSE 0)
                   /\ UNCHANGED <<projects, listeners, subscribed, nCreate>>
           \/ \E cb \in Probes :
                /\ nOps < MaxOps
                /\ Len(listeners) < MaxListeners
                /\ listeners' = Push(listeners, cb)
                /\ subscribed' = Append(subscribed, cb)
                /\ stack' = Advance(stack)
                /\ op' = [op EXCEPT !.invoked =
                           Append(@, Invocation(listenerFn, arg, "addListener"))]
                /\ nOps' = nOps + 1
                /\ UNCHANGED <<heap, projects, nCreate, nChanged>>
           \/ /\ stack' = Unwind(stack)
              /\ op' = [op EXCEPT !.invoked =
                         Append(@, Invocation(listenerFn, arg, "throw"))]
              /\ UNCHANGED <<heap, projects, listeners, subscribed, nOps,
                             nCreate, nChanged>>
  /\ UNCHANGED <<lists, assignedProjects, rendered, event, nBroadcast,
                 staticVars, dragVars>>

\* The store with listeners that call it back: lists and other callbacks
\* subscribe, addProject and moveProject are called, and a callback other
\* than a list's may call the store from inside a broadcast or raise.
NextReentrant ==
  \/ LoadProjectState
  \/ \E cb \in Probes : Subscribe(cb)
  \/ \E type \in ListTypes : NewProjectList(type)
  \/ CallAddProject
  \/ CallMoveProject
  \/ InvokeListener
  \/ InvokeReentrantListener
  \/ ReturnFromUpdateListeners

SpecReentrant == Init /\ [][NextReentrant]_vars

\* ------------------------------------------------------------------- claims
\* The callbacks the running or last operation invoked, in order.
InvokedCallbacks == [k \in 1 .. Len(op.invoked) |-> op.invoked[k].cb]

\* The references of all projects created so far, in creation order.
CreationOrder == [k \in 1 .. Len(heap) |-> k]

\* The operation `kind` has returned and nothing has run since.
Returned(kind) == Idle /\ op.kind = kind

\* C1: over any sequence of store operations the number of broadcasts is
\* the number of addProject calls plus the number of moveProject calls whose
\* lookup found a project of another status; and an operation broadcasts
\* (once, to every listener) exactly when it changed the (id, status)
\* sequence of the store.
BroadcastIffChanged ==
  Idle =>
    /\ nBroadcast = nCreate + nChanged
    /\ op.kind \in {"addListener", "addProject", "moveProject"} =>
         /\ op.bcasts \in {0, 1}
         /\ (op.bcasts = 1) <=>
              (View(projects, heap) # View(op.preProjects, op.preHeap))
         /\ InvokedCallbacks = IF op.bcasts = 1 THEN listeners ELSE <<>>

\* create, create, transition(first, Finished) with a listener subscribed:
\* three broadcasts, the first project Finished and the second Active.
BroadcastIffChangedWitness ==
  /\ Returned("moveProject")
  /\ nCreate = 2 /\ nChanged = 1 /\ nBroadcast = 3
  /\ listeners # <<>>
  /\ Len(projects) = 2
  /\ heap[projects[1]].status = Finished
  /\ heap[projects[2]].status = Active

\* C2: a moveProject whose lookup finds a project of another status sets
\* that project's status to newStatus, leaves every other project and the
\* sequence as they were, and then invokes every registered listener exactly
\* once, in registration order, each seeing the new status.
MoveSetsStatusAndBroadcasts ==
  Returned("moveProject") =>
    \A k \in 1 .. Len(op.preProjects) :
      ( /\ op.preHeap[op.preProjects[k]].id = op.projectId
        /\ \A j \in 1 .. (k - 1) : op.preHeap[op.preProjects[j]].id # op.projectId
        /\ op.preHeap[op.preProjects[k]].status # op.newStatus )
      => /\ heap = [op.preHeap EXCEPT ![op.preProjects[k]].status = op.newStatus]
         /\ projects = op.preProjects
         /\ InvokedCallbacks = listeners
         /\ \A n \in 1 .. Len(op.invoked) :
              /\ op.invoked[n].snap = projects
              /\ op.invoked[n].view = View(projects, heap)

\* A move of the second of two projects to Finished, a listener invoked.
MoveSetsStatusAndBroadcastsWitness ==
  /\ Returned("moveProject")
  /\ Len(projects) = 2
  /\ Len(op.invoked) = 1
  /\ heap[projects[1]].id # heap[projects[2]].id
  /\ op.preHeap[projects[2]].status = Active
  /\ heap[projects[2]].status = Finished
  /\ heap[projects[1]].status = Active

\* C3: a moveProject whose lookup finds a project that already has
\* newStatus invokes no listener and leaves the sequence and every project
\* as they were.
SameStatusMoveIsNoOp ==
  Returned("moveProject") =>
    \A k \in 1 .. Len(op.preProjects) :
      ( /\ op.preHeap[op.preProjects[k]].id = op.projectId
        /\ \A j \in 1 .. (k - 1) : op.preHeap[op.preProjects[j]].id # op.projectId
        /\ op.preHeap[op.preProjects[k]].status = op.newStatus )
      => /\ op.invoked = <<>>
         /\ op.bcasts = 0
         /\ heap = op.preHeap
         /\ projects = op.preProjects

\* A card is dropped on the list that shows it, listeners being registered.
SameStatusMoveIsNoOpWitness ==
  /\ Returned("moveProject")
  /\ event.type = "drop"
  /\ listeners # <<>>
  /\ \E k \in 1 .. Len(assignedProjects[event.target]) :
       LET project == assignedProjects[event.target][k]
       IN /\ heap[project].id = op.projectId
          /\ heap[project].status = op.newStatus
          /\ Find(op.preProjects, op.preHeap, op.projectId) = project

\* C4: a moveProject with an id that no project has (the empty string
\* included) raises no error, invokes no listener and leaves the sequence
\* and every project as they were.
UnknownIdMoveIsNoOp ==
  ( /\ Idle
    /\ op.kind \in {"moveProject", "moveProject threw"}
    /\ \A k \in 1 .. Len(op.preProjects) :
         op.preHeap[op.preProjects[k]].id # op.projectId )
  => /\ op.kind = "moveProject"
     /\ op.invoked = <<>>
     /\ op.bcasts = 0
     /\ heap = op.preHeap
     /\ projects = op.preProjects

\* A drop with an empty payload on a list, the store holding projects.
UnknownIdMoveIsNoOpWitness ==
  /\ Returned("moveProject")
  /\ event.type = "drop"
  /\ op.projectId = ""
  /\ projects # <<>>
  /\ listeners # <<>>

\* C5: after any sequence of addProject and moveProject calls, the array
\* each listener was last handed shows exactly the (id, status) pairs of the
\* store's sequence.
LastSnapshotShowsStore ==
  Idle =>
    \A cb \in Callbacks :
      delivered[cb].got =>
        {View(delivered[cb].snap, heap)[k] : k \in 1 .. Len(delivered[cb].snap)}
          = {View(projects, heap)[k] : k \in 1 .. Len(projects)}

\* A listener has been handed two projects of different status, after a move.
LastSnapshotShowsStoreWitness ==
  /\ Returned("moveProject")
  /\ \E cb \in Callbacks :
       /\ delivered[cb].got
       /\ Len(delivered[cb].snap) = 2
       /\ heap[delivered[cb].snap[1]].status # heap[delivered[cb].snap[2]].status

\* C6: when a listener pushes to, pops from or reorders the array it was
\* handed, the store's sequence stays the projects created so far, in order,
\* and every later invocation hands over exactly that sequence.
SnapshotIsolation ==
  /\ projects = CreationOrder
  /\ \A n \in 1 .. Len(op.invoked) : op.invoked[n].snap = CreationOrder

\* A listener that edited an array it was handed before is handed the
\* sequence of two projects by a later broadcast.
SnapshotIsolationWitness ==
  /\ Idle
  /\ Len(projects) >= 2
  /\ \E n \in 1 .. Len(op.invoked) :
       /\ op.invoked[n].cb \in Probes
       /\ op.invoked[n].editedBefore
       /\ op.invoked[n].snap = projects

\* C7: the status of a stored project changes only in a step of
\* moveProject called with that project's id and the new status.
StatusChangesOnlyByMoveProject ==
  [][\A ref \in 1 .. Len(heap) :
       heap'[ref].status # heap[ref].status =>
         /\ Idle
         /\ op'.kind = "moveProject"
         /\ op'.projectId = heap[ref].id
         /\ op'.newStatus = heap'[ref].status]_vars

\* C8: no two projects of the store's sequence have the same id.
UniqueIds ==
  \A i, j \in 1 .. Len(projects) :
    i # j => heap[projects[i]].id # heap[projects[j]].id

\* C9: addProject appends exactly one project to the end of the sequence,
\* Active and with the title, description and people it was given, leaves
\* the projects that were there as they were, and then invokes every
\* registered listener exactly once with an array that holds the new project.
AddProjectAppendsAndBroadcasts ==
  Returned("addProject") =>
    /\ Len(heap) = Len(op.preHeap) + 1
    /\ SubSeq(heap, 1, Len(op.preHeap)) = op.preHeap
    /\ heap[Len(heap)].title = op.input.title
    /\ heap[Len(heap)].description = op.input.description
    /\ heap[Len(heap)].people = op.input.people
    /\ heap[Len(heap)].status = Active
    /\ projects = Append(op.preProjects, Len(heap))
    /\ InvokedCallbacks = listeners
    /\ \A n \in 1 .. Len(op.invoked) :
         /\ op.invoked[n].snap = projects
         /\ op.invoked[n].view = View(projects, heap)

\* "Write docs" is added after a Finished project, two listeners invoked.
AddProjectAppendsAndBroadcastsWitness ==
  /\ Returned("addProject")
  /\ Len(projects) = 2
  /\ heap[projects[1]].status = Finished
  /\ heap[projects[2]].title = "Write docs"
  /\ Len(op.invoked) >= 1

\* A strictly increasing array of references: earlier created before later.
InCreationOrder(arr) ==
  \A i, j \in 1 .. Len(arr) : i < j => arr[i] < arr[j]

\* C10: the store's sequence and every array handed to a listener list
\* the projects in creation order: one created earlier precedes one created
\* later, also after a moveProject.
OrderPreserved ==
  /\ InCreationOrder(projects)
  /\ \A cb \in Callbacks : InCreationOrder(delivered[cb].snap)
  /\ \A n \in 1 .. Len(op.invoked) : InCreationOrder(op.invoked[n].snap)

\* Two projects, the later created one moved to Finished, handed to a listener.
OrderPreservedWitness ==
  /\ Returned("moveProject")
  /\ projects = <<1, 2>>
  /\ heap[1].status = Active
  /\ heap[2].status = Finished
  /\ \E cb \in Callbacks : delivered[cb].snap = <<1, 2>>

\* C11: in every broadcast the listeners are invoked in the order in which
\* they were passed to addListener: the callbacks invoked so far are the
\* first ones subscribed, and a finished broadcast has invoked them all, so
\* every broadcast uses the same order.
InvokedInSubscriptionOrder ==
  /\ Len(op.invoked) <= Len(subscribed)
  /\ InvokedCallbacks = SubSeq(subscribed, 1, Len(op.invoked))
  /\ (Idle /\ op.bcasts = 1) => InvokedCallbacks = subscribed

\* A broadcast has run through two different callbacks, after an earlier
\* broadcast to the same two.
InvokedInSubscriptionOrderWitness ==
  /\ Idle
  /\ op.bcasts = 1
  /\ nBroadcast = 2
  /\ Len(subscribed) = 2
  /\ subscribed[1] # subscribed[2]
  /\ Len(op.invoked) = 2

\* C12: addListener only appends the callback to the registry: when it
\* returns the registry is the previous one with the callback at the end,
\* no listener has been invoked and no broadcast has run, the projects and
\* their sequence are as before, and a callback that was not registered
\* before has never been invoked. A callback is only ever invoked after a
\* mutation (addProject or a changing moveProject) has happened.
AddListenerOnlyAppends ==
  /\ Returned("addListener") =>
       /\ subscribed # <<>>
       /\ listeners = Append(op.preListeners, subscribed[Len(subscribed)])
       /\ op.invoked = <<>>
       /\ op.bcasts = 0
       /\ heap = op.preHeap
       /\ projects = op.preProjects
       /\ \A cb \in Callbacks :
            (\A k \in 1 .. Len(op.preListeners) : op.preListeners[k] # cb)
              => ~delivered[cb].got
  /\ \A cb \in Callbacks : delivered[cb].got => nCreate + nChanged >= 1

\* A second callback is subscribed while the store holds a project and the
\* first callback has already received a broadcast.
AddListenerOnlyAppendsWitness ==
  /\ Returned("addListener")
  /\ projects # <<>>
  /\ Len(listeners) = 2
  /\ listeners[1] # listeners[2]
  /\ delivered[listeners[1]].got
  /\ ~delivered[listeners[2]].got

\* How many entries of the sequence s are x.
Count(s, x) == Cardinality({k \in 1 .. Len(s) : s[k] = x})

\* C13: subscriptions are not deduplicated: a broadcast invokes each
\* callback as many times as it was passed to addListener before.
InvokedOncePerSubscription ==
  (Idle /\ op.bcasts = 1) =>
    \A cb \in Callbacks :
      Count(InvokedCallbacks, cb) = Count(subscribed, cb)

\* The same callback was subscribed twice and a broadcast invoked it twice.
InvokedOncePerSubscriptionWitness ==
  /\ Idle
  /\ op.bcasts = 1
  /\ \E cb \in Callbacks :
       /\ subscribed = <<cb, cb>>
       /\ Count(InvokedCallbacks, cb) = 2

\* C14: the mutation is complete before the first listener of its broadcast
\* is invoked: every snapshot handed out by an operation shows the store as
\* it is, which for addProject is the previous sequence followed by the new
\* Active project built from the call's arguments, and for moveProject the
\* previous sequence with the new status on the project found.
MutationAppliedBeforeBroadcast ==
  \A n \in 1 .. Len(op.invoked) :
    LET inv == op.invoked[n]
        pre == View(op.preProjects, op.preHeap)
        len == Len(op.preProjects)
    IN /\ inv.snap = projects
       /\ inv.view = View(projects, heap)
       /\ op.kind \in {"addProject", "moveProject"}
       /\ op.kind = "addProject" =>
            /\ Len(inv.view) = len + 1
            /\ SubSeq(inv.view, 1, len) = pre
            /\ inv.view[len + 1][2] = Active
            /\ heap[inv.snap[len + 1]].title = op.input.title
            /\ heap[inv.snap[len + 1]].description = op.input.description
            /\ heap[inv.snap[len + 1]].people = op.input.people
       /\ op.kind = "moveProject" =>
            \E k \in 1 .. len :
              /\ pre[k][1] = op.projectId
              /\ \A j \in 1 .. (k - 1) : pre[j][1] # op.projectId
              /\ pre[k][2] # op.newStatus
              /\ inv.view = [pre EXCEPT ![k] = <<op.projectId, op.newStatus>>]

\* In the middle of the broadcast of a moveProject: the first of two
\* listeners has been invoked, the second not yet.
MutationAppliedBeforeBroadcastWitness ==
  /\ ~Idle
  /\ op.kind = "moveProject"
  /\ Len(listeners) = 2
  /\ Len(op.invoked) = 1
  /\ op.invoked[1].view # View(op.preProjects, op.preHeap)

\* C15: no step changes the id, title, description or people of a project
\* that exists, and no project ceases to exist: between two states an
\* existing project can differ in its status only.
OnlyStatusChanges ==
  [][/\ Len(heap') >= Len(heap)
     /\ \A r \in 1 .. Len(heap) :
          /\ heap'[r].id = heap[r].id
          /\ heap'[r].title = heap[r].title
          /\ heap'[r].description = heap[r].description
          /\ heap'[r].people = heap[r].people]_vars

\* A moveProject has changed the status of "Build CLI": the project still
\* has the fields it was created with.
OnlyStatusChangesWitness ==
  /\ Returned("moveProject")
  /\ op.bcasts = 1
  /\ \E r \in 1 .. Len(heap) :
       /\ heap[r].status = Finished
       /\ op.preHeap[r].status = Active
       /\ heap[r].title = "Build CLI"
       /\ heap[r].people = 3
       /\ heap[r].id = op.projectId

\* s is t or t with further entries at its end.
IsPrefix(t, s) == Len(t) <= Len(s) /\ SubSeq(s, 1, Len(t)) = t

\* C16: the store is a singleton. Before the first access there is no
\* instance; from the first access on exactly one ProjectState has been
\* constructed, it is the one projectState names and the one every
\* getInstance call returns, and its project sequence and listener
\* registry are never emptied or replaced, only extended.
SingleInstance ==
  /\ [](IF projectState = Undefined
        THEN instance = Undefined /\ constructed = 0
        ELSE /\ constructed = 1
             /\ instance = projectState
             /\ returned = projectState)
  /\ [][projectState # Undefined =>
          /\ projectState' = projectState
          /\ instance' = instance
          /\ IsPrefix(projects, projects')
          /\ IsPrefix(listeners, listeners')]_vars

\* getInstance is called again when the store holds a project and a
\* listener: it returns the instance projectState names, nothing is lost.
SingleInstanceWitness ==
  /\ Returned("getInstance")
  /\ returned = projectState
  /\ projects # <<>>
  /\ listeners # <<>>

\* The fixed status of each list.
StatusOfList == [active |-> Active, finished |-> Finished]

\* view consists of the entries of snap whose project has the status, each
\* once and in the order of snap: its j-th entry is the entry of snap at the
\* j-th index that has the status.
IsStatusSubsequence(view, snap, h, status) ==
  LET hits == {k \in 1 .. Len(snap) : h[snap[k]].status = status}
  IN /\ Len(view) = Cardinality(hits)
     /\ \A k \in hits :
          view[Cardinality({i \in hits : i <= k})] = snap[k]

\* C17: when the listener of a list has been invoked with a snapshot, the
\* list's assigned projects (and the cards it renders) are exactly the
\* projects of the snapshot that have the list's status, in the snapshot's
\* order.
FilterCorrect ==
  \A n \in 1 .. Len(op.invoked) :
    LET cb == op.invoked[n].cb
    IN cb \in ListTypes =>
         /\ IsStatusSubsequence(assignedProjects[cb], op.invoked[n].snap,
                                heap, StatusOfList[cb])
         /\ rendered[cb] = assignedProjects[cb]

\* The store holds projects of status Active, Finished, Active and both
\* lists have filtered the last broadcast: two in the active view, one in
\* the finished view, in creation order.
FilterCorrectWitness ==
  /\ Idle
  /\ Len(op.invoked) = 2
  /\ Len(projects) = 3
  /\ [k \in 1 .. 3 |-> heap[projects[k]].status] = <<Active, Finished, Active>>
  /\ assignedProjects["active"] = <<projects[1], projects[3]>>
  /\ assignedProjects["finished"] = <<projects[2]>>

\* C18: the drop handler of a list calls moveProject with the id of the
\* project of the dragged card (what dragStartHandler put into the payload)
\* and with the list's own status, whichever list the card was dragged from.
DropRequestsMove ==
  (event.type = "drop" /\ drag.source # NoCard) =>
    /\ op.kind = "moveProject"
    /\ op.projectId = heap[drag.source.project].id
    /\ op.projectId = event.data
    /\ op.newStatus = StatusOfList[event.target]

\* A card dragged from the finished list has been dropped on the active
\* list.
DropRequestsMoveWitness ==
  /\ event.type = "drop"
  /\ event.target = "active"
  /\ drag.source.list = "finished"
  /\ op.newStatus = Active
  /\ op.projectId = heap[drag.source.project].id

\* The reference x occurs in the sequence s.
Occurs(s, x) == \E k \in 1 .. Len(s) : s[k] = x

\* C19: when the card of a project has been dropped on the list of the
\* other status and the drop handler has returned, both lists have been
\* re-rendered, the project has a card in the target list and none in the
\* list it was dragged from.
DropMovesCard ==
  (/\ Idle
   /\ event.type = "drop"
   /\ drag.source # NoCard
   /\ event.target # drag.source.list) =>
    /\ InvokedCallbacks = <<"active", "finished">>
    /\ Occurs(rendered[event.target], drag.source.project)
    /\ ~Occurs(rendered[drag.source.list], drag.source.project)

\* The same, for projects whose id no other project has.
DropMovesCardUniqueId ==
  (/\ Idle
   /\ event.type = "drop"
   /\ drag.source # NoCard
   /\ event.target # drag.source.list
   /\ \A r \in 1 .. Len(heap) :
        heap[r].id = heap[drag.source.project].id => r = drag.source.project)
  => /\ InvokedCallbacks = <<"active", "finished">>
     /\ Occurs(rendered[event.target], drag.source.project)
     /\ ~Occurs(rendered[drag.source.list], drag.source.project)

\* C20: a list's dragover handler accepts the event (preventDefault, which
\* permits a drop) and puts the class "droppable" on its <ul> exactly when
\* the first type of the drag's payload is text/plain; for every other
\* payload the event is not accepted and the markers stay as they were.
DragOverAcceptsPlainText ==
  event.type = "dragover" =>
    LET plain == drag.items # <<>> /\ drag.items[1].type = "text/plain"
    IN /\ event.defaultPrevented = plain
       /\ drag.accepted = plain
       /\ droppable = IF plain
                      THEN event.droppableBefore \cup {event.target}
                      ELSE event.droppableBefore

\* The card of a project is dragged over a list that was not marked: the
\* event is accepted and the list is marked.
DragOverAcceptsPlainTextWitness ==
  /\ event.type = "dragover"
  /\ drag.source # NoCard
  /\ event.defaultPrevented
  /\ event.target \notin event.droppableBefore
  /\ event.target \in droppable

\* C21: when the drag of a card has ended, with a drop on a list or without
\* one, no list has the class "droppable": dragEndHandler has removed it
\* from every list that had it.
DragEndClearsMarkers ==
  (event.type = "dragend" /\ event.target # "none") => droppable = {}

\* A card was dropped on one list while the other list was still marked
\* (left so by a text drag from outside): dragend has cleared both.
DragEndClearsMarkersWitness ==
  /\ event.type = "dragend"
  /\ event.target # "none"
  /\ event.droppableBefore = {"active", "finished"}
  /\ op.kind = "moveProject"
  /\ droppable = {}

DragOnlyEvents == {"dragstart", "dragover", "dragleave", "dragend"}

\* C23: the handlers of dragstart, dragover, dragleave and dragend leave
\* the store alone: the projects and their statuses, the project sequence
\* and the listener registry are unchanged, no operation starts and no
\* broadcast runs. A store operation is started only by a drop or by a
\* form submit (addProject).
DragHandlersLeaveStore ==
  [][/\ event'.type \in DragOnlyEvents =>
          /\ UNCHANGED <<heap, projects, listeners, stack, op>>
          /\ UNCHANGED <<nOps, nCreate, nChanged, nBroadcast>>
          /\ UNCHANGED <<assignedProjects, rendered>>
     /\ nOps' # nOps =>
          \/ event'.type = "drop" /\ op'.kind = "moveProject"
          \/ event'.type = "none" /\ op'.kind = "addProject"]_vars

\* The card of a stored project has been dragged over a list and away
\* again: the last store operation is still the addProject before the drag.
DragHandlersLeaveStoreWitness ==
  /\ event.type = "dragleave"
  /\ drag.source # NoCard
  /\ event.droppableBefore # {}
  /\ op.kind = "addProject"
  /\ projects # <<>>
  /\ nBroadcast = nCreate

\* C24 as stated: when the constructor of a list returns, the list's view
\* is the filter of the store's project sequence as it is then.
ListShowsStoreAtConstruction ==
  \A type \in ListTypes :
    (Returned("addListener") /\ subscribed[Len(subscribed)] = type) =>
      IsStatusSubsequence(assignedProjects[type], projects, heap,
                          StatusOfList[type])

\* C24, amended: the constructor of a list subscribes the list's listener
\* (once) and leaves the list's view empty whatever the store holds; the
\* view stays empty until the listener is first invoked, and is the filter
\* of the snapshot from then on.
ListStartsEmpty ==
  \A type \in ListTypes :
    /\ Count(listeners, type) = (IF type \in lists THEN 1 ELSE 0)
    /\ ~delivered[type].got =>
         assignedProjects[type] = <<>> /\ rendered[type] = <<>>
    /\ \A n \in 1 .. Len(op.invoked) :
         op.invoked[n].cb = type =>
           IsStatusSubsequence(assignedProjects[type], op.invoked[n].snap,
                               heap, StatusOfList[type])

\* The active list has just been constructed while the store holds an
\* Active project: the list is subscribed and shows nothing.
ListStartsEmptyWitness ==
  /\ Returned("addListener")
  /\ subscribed[Len(subscribed)] = "active"
  /\ projects # <<>>
  /\ heap[projects[1]].status = Active
  /\ assignedProjects["active"] = <<>>
  /\ rendered["active"] = <<>>

\* C25: when a list's listener has returned, the cards in the list's <ul>
\* are exactly the projects of the snapshot that have the list's status, in
\* order: one card per such project, no project twice, and no card of a
\* project that an earlier render showed and the filter no longer keeps.
RenderReplaces ==
  \A n \in 1 .. Len(op.invoked) :
    LET cb == op.invoked[n].cb
    IN cb \in ListTypes =>
         /\ IsStatusSubsequence(rendered[cb], op.invoked[n].snap, heap,
                                StatusOfList[cb])
         /\ Cardinality({rendered[cb][k] : k \in 1 .. Len(rendered[cb])})
              = Len(rendered[cb])
         /\ \A k \in 1 .. Len(rendered[cb]) :
              heap[rendered[cb][k]].status = StatusOfList[cb]

\* A project that had a card in the active list, next to another, was
\* moved: the active list now shows the other one only, the finished list
\* the moved one.
RenderReplacesWitness ==
  /\ Idle
  /\ op.kind = "moveProject"
  /\ Len(op.invoked) = 2
  /\ Len(projects) = 2
  /\ \A k \in 1 .. 2 : op.preHeap[projects[k]].status = Active
  /\ Len(rendered["active"]) = 1
  /\ Len(rendered["finished"]) = 1

\* The string has a character that is not white space.
NonBlank(s) == \E k \in 1 .. Len(s) : s[k] \notin WhiteSpace

\* The three fields as the form requires them: a non-blank title, a
\* non-blank description of at least 5 characters, a headcount from 1 to 5.
FieldsAccepted(input) ==
  /\ NonBlank(input.title)
  /\ NonBlank(input.description)
  /\ Len(input.description) >= 5
  /\ ~ToNumber(input.people).nan
  /\ ToNumber(input.people).n \in 1 .. 5

\* C26: a submit calls addProject, with the three values entered, exactly
\* when all three fields are accepted; when a field is rejected the user is
\* alerted, addProject is not called, the store is as before and no
\* broadcast starts.
SubmitValidatesFirst ==
  [][(Idle /\ event'.type = "submit") =>
       IF FieldsAccepted(event'.input)
       THEN /\ ~event'.alerted
            /\ op'.kind = "addProject"
            /\ op'.input = [title |-> event'.input.title,
                            description |-> event'.input.description,
                            people |-> ToNumber(event'.input.people).n]
            /\ Len(projects') = Len(projects) + 1
            /\ nCreate' = nCreate + 1
            /\ stack' # <<>>
       ELSE /\ event'.alerted
            /\ UNCHANGED <<heap, projects, listeners, stack, op>>
            /\ UNCHANGED <<nOps, nCreate, nChanged, nBroadcast>>
            /\ UNCHANGED <<assignedProjects, rendered>>]_vars

\* After an accepted submit, a submit whose description has 4 characters
\* (title and headcount being acceptable) was rejected: the store still
\* holds the one project.
SubmitValidatesFirstWitness ==
  /\ Idle
  /\ event.type = "submit"
  /\ event.alerted
  /\ NonBlank(event.input.title)
  /\ Len(event.input.description) = 4
  /\ ToNumber(event.input.people).n = 5
  /\ Len(projects) = 1
  /\ nCreate = 1
  /\ nBroadcast = 1

\* C27: moveProject is requested only by a drop, and a drop reaches a list
\* only when that list accepted the last dragover of the drag in progress:
\* the pointer is over the list, the list is marked, and the payload's
\* first type is text/plain. A drag with another payload is never accepted
\* and so never leads to a moveProject.
MoveOnlyByAcceptedDrop ==
  [][(nOps' # nOps /\ op'.kind # "addProject") =>
       /\ op'.kind = "moveProject"
       /\ event'.type = "drop"
       /\ drag.phase = "dragging"
       /\ drag.over = event'.target
       /\ drag.accepted
       /\ event'.target \in droppable
       /\ drag.items # <<>>
       /\ drag.items[1].type = "text/plain"
       /\ op'.projectId = drag.items[1].value]_vars

\* A piece of text dragged from outside the cards was accepted by the
\* finished list and dropped there: moveProject was requested with the text
\* as id and found no project.
MoveOnlyByAcceptedDropWitness ==
  /\ event.type = "drop"
  /\ event.target = "finished"
  /\ drag.source = NoCard
  /\ drag.phase = "dropped"
  /\ op.kind = "moveProject"
  /\ op.projectId = "nonexistent-id"
  /\ op.bcasts = 0
  /\ projects # <<>>

\* C28: a list gets the class "droppable" only by its own dragover handler
\* accepting the event; dragleave on a list removes the class from that
\* list and from no other; a list loses it only by its dragleave or by a
\* card's dragend; the drop handler and the listeners' re-rendering leave
\* the classes as they are, so from the drop until dragend the target list
\* is marked.
MarkerRules ==
  [][/\ \A type \in droppable' \ droppable :
          /\ event'.type = "dragover"
          /\ event'.target = type
          /\ event'.defaultPrevented
     /\ \A type \in droppable \ droppable' :
          \/ event'.type = "dragleave" /\ event'.target = type
          \/ event'.type = "dragend"
     /\ event'.type = "dragleave" =>
          droppable' = droppable \ {event'.target}
     /\ event'.type = "drop" =>
          /\ droppable' = droppable
          /\ event'.target \in droppable']_vars

\* A card was dropped while both lists were marked and the broadcast has
\* re-rendered both lists: both are still marked.
MarkerRulesWitness ==
  /\ Idle
  /\ event.type = "drop"
  /\ drag.source # NoCard
  /\ op.bcasts = 1
  /\ Len(op.invoked) = 2
  /\ droppable = {"active", "finished"}

\* C29: the earlier revision of moveProject (without the comparison of the
\* status) and the present one, run on the same calls, hold the same
\* (id, status) sequence in every state; after a call they differ in one
\* thing only: a moveProject that finds a project which already has the
\* requested status broadcasts in the earlier revision and not in the
\* present one.
VariantsEquivalent ==
  /\ Len(op.earlier.heap) = Len(heap)
  /\ View(projects, op.earlier.heap) = View(projects, heap)
  /\ (Idle /\ op.kind \in {"addProject", "moveProject"}) =>
       LET pre == View(op.preProjects, op.preHeap)
           sameStatusHit ==
             /\ op.kind = "moveProject"
             /\ \E k \in 1 .. Len(pre) :
                  /\ pre[k] = <<op.projectId, op.newStatus>>
                  /\ \A j \in 1 .. (k - 1) : pre[j][1] # op.projectId
       IN /\ (op.earlier.broadcast # (op.bcasts = 1)) <=> sameStatusHit
          /\ sameStatusHit => (op.earlier.broadcast /\ op.bcasts = 0)

\* A project that is Finished was moved to Finished again: both revisions
\* hold the same statuses, the earlier one has broadcast, the present one
\* has not.
VariantsEquivalentWitness ==
  /\ Returned("moveProject")
  /\ op.newStatus = Finished
  /\ op.preHeap # <<>>
  /\ op.preHeap[1].status = Finished
  /\ op.preHeap[1].id = op.projectId
  /\ op.earlier.broadcast
  /\ op.bcasts = 0
  /\ op.earlier.heap = heap

\* C30: validate returns true exactly when every constraint that is
\* configured and applies to the value's type holds: required, that the
\* value's string form has a character that is not white space; minLength
\* and maxLength, for a string only, bound its length; min and max, for a
\* number only, bound the number. A length bound on a number and a range
\* bound on a string are ignored; with nothing configured it returns true.
ValidateCorrect ==
  event.type = "validate" =>
    LET v == event.validatable
        isString == v.value.type = "string"
        isNumber == v.value.type = "number"
    IN event.result <=>
         /\ v.required => NonBlank(ValueToString(v.value))
         /\ \A k \in v.minLength : isString => Len(v.value.s) >= k
         /\ \A k \in v.maxLength : isString => Len(v.value.s) <= k
         /\ \A k \in v.min : isNumber => (~v.value.nan /\ v.value.n >= k)
         /\ \A k \in v.max : isNumber => (~v.value.nan /\ v.value.n <= k)

\* validate accepted the number 3 under required, min 1, max 5 and the
\* length bounds 2 and 3, which a number ignores.
ValidateCorrectWitness ==
  /\ event.type = "validate"
  /\ event.validatable =
       Validatable(NumberValue(3), TRUE, {2}, {3}, {1}, {5})
  /\ event.result

\* C31: within one broadcast every listener is handed its own copy of the
\* sequence: whatever a listener pushed to, popped from or reordered in the
\* array it was handed, a listener invoked after it in the same broadcast is
\* handed the same sequence as the one before it was.
FreshCopyPerListener ==
  \A m, n \in 1 .. Len(op.invoked) :
    m < n =>
      /\ op.invoked[n].snap = op.invoked[m].snap
      /\ op.invoked[n].view = op.invoked[m].view

\* The first listener of a broadcast edited the array it was handed, for the
\* first time, and the same callback, subscribed twice, was invoked after it.
FreshCopyPerListenerWitness ==
  /\ Len(op.invoked) = 2
  /\ op.invoked[1].cb \in Probes
  /\ op.invoked[2].cb = op.invoked[1].cb
  /\ ~op.invoked[1].editedBefore
  /\ op.invoked[2].editedBefore
  /\ op.invoked[2].snap # <<>>

\* C32: when a listener calls addProject or moveProject from inside its
\* callback, every array handed to a listener, by the broadcast that was
\* running or by the one the call starts, shows the store's sequence as it
\* is when the listener is called; and what a listener is handed is never
\* older than what it was handed before: the earlier array is a prefix of
\* the later one, and the later one shows the store as it was at some call
\* made since the earlier one.
ReentrantDeliveriesCurrent ==
  /\ \A n \in 1 .. Len(op.invoked) : op.invoked[n].view = op.invoked[n].store
  /\ \A m, n \in 1 .. Len(op.invoked) :
       (m < n /\ op.invoked[m].cb = op.invoked[n].cb) =>
         /\ IsPrefix(op.invoked[m].snap, op.invoked[n].snap)
         /\ \E k \in (m + 1) .. n : op.invoked[n].view = op.invoked[k].store

\* A listener called addProject or moveProject from inside the first
\* broadcast; the broadcast this started called another listener, and the
\* first broadcast, going on, called that listener again.
ReentrantDeliveriesCurrentWitness ==
  \E j, m, n \in 1 .. Len(op.invoked) :
    /\ j < m /\ m < n
    /\ op.invoked[j].depth = 1
    /\ op.invoked[j].call \in {"addProject", "moveProject"}
    /\ op.invoked[j].store # op.invoked[m].store
    /\ op.invoked[m].depth = 2
    /\ op.invoked[n].depth = 1
    /\ op.invoked[m].cb = op.invoked[n].cb
    /\ op.invoked[m].cb # op.invoked[j].cb

\* The callbacks a loop called, in the order of the calls.
LoopCallbacks(d) ==
  [j \in 1 .. Cardinality(LastLoop(d)) |->
     op.invoked[CHOOSE k \in LastLoop(d) :
                  Cardinality({i \in LastLoop(d) : i <= k}) = j].cb]

\* C33: a callback passed to addListener from inside a listener, while a
\* broadcast is running, is put at the end of the registry the loop iterates
\* and is called before that broadcast ends: every loop that has ended
\* without an exception has called the whole registry as it is at its end,
\* in order, each time with the store's sequence as it was then.
SubscribedDuringBroadcastIsInvoked ==
  LET n == Len(op.invoked)
  IN (n > 0 /\ op.invoked[n].call # "throw") =>
       \A d \in (Len(stack) + 1) .. op.invoked[n].depth :
         /\ LoopCallbacks(d) = listeners
         /\ \A k \in LastLoop(d) : op.invoked[k].view = op.invoked[k].store

\* The first listener of a broadcast subscribed a callback from inside its
\* call; the broadcast then called that callback, with the store's
\* sequence, and ended.
SubscribedDuringBroadcastIsInvokedWitness ==
  /\ Idle
  /\ op.bcasts = 1
  /\ Len(op.preListeners) = 1
  /\ Len(listeners) = 2
  /\ Len(op.invoked) = 2
  /\ op.invoked[1].call = "addListener"
  /\ op.invoked[2].cb = listeners[2]
  /\ op.invoked[2].depth = 1
  /\ op.invoked[2].view = View(projects, heap)
  /\ projects # <<>>

\* C34: when a listener raises during a broadcast, the broadcast stops
\* there: no listener is called after it for that mutation and every loop
\* has ended; the store stays as it was when the listener was called, with
\* the mutation that started the broadcast applied: the new project at the
\* end of the sequence for addProject, the new status on the project found
\* for moveProject.
BroadcastStopsAtException ==
  \A n \in 1 .. Len(op.invoked) :
    op.invoked[n].call = "throw" =>
      /\ n = Len(op.invoked)
      /\ Idle
      /\ projects = op.invoked[n].snap
      /\ View(projects, heap) = op.invoked[n].store
      /\ (\A k \in 1 .. (n - 1) :
            op.invoked[k].call \notin {"addProject", "moveProject"}) =>
           LET pre == View(op.preProjects, op.preHeap)
               len == Len(op.preProjects)
           IN /\ op.kind \in {"addProject", "moveProject"}
              /\ op.kind = "addProject" =>
                   /\ Len(projects) = len + 1
                   /\ SubSeq(View(projects, heap), 1, len) = pre
                   /\ heap[projects[len + 1]].title = op.input.title
                   /\ heap[projects[len + 1]].status = Active
              /\ op.kind = "moveProject" =>
                   \E k \in 1 .. len :
                     /\ pre[k][1] = op.projectId
                     /\ \A j \in 1 .. (k - 1) : pre[j][1] # op.projectId
                     /\ pre[k][2] # op.newStatus
                     /\ View(projects, heap) =
                          [pre EXCEPT ![k] = <<op.projectId, op.newStatus>>]

\* The first of two listeners raised in the broadcast of a moveProject: the
\* second was not called, no broadcast was completed, and the project has
\* its new status.
BroadcastStopsAtExceptionWitness ==
  /\ Idle
  /\ op.kind = "moveProject"
  /\ op.bcasts = 0
  /\ Len(listeners) = 2
  /\ Len(op.invoked) = 1
  /\ op.invoked[1].call = "throw"
  /\ View(projects, heap) # View(op.preProjects, op.preHeap)

\* The ids of the store's sequence, in order.
ProjectIdsOf(arr, h) == [k \in 1 .. Len(arr) |-> h[arr[k]].id]

\* Every loop that has ended, by returning or by an exception, has called
\* every callback registered before the operation started.
EndedLoopsCalledRegistered ==
  LET n == Len(op.invoked)
  IN n > 0 =>
       \A d \in (Len(stack) + 1) .. op.invoked[n].depth :
         IsPrefix(op.preListeners, LoopCallbacks(d))

ReturnedLoopsCalledRegistered ==
  LET n == Len(op.invoked)
  IN (n > 0 /\ op.invoked[n].call # "throw") =>
       \A d \in (Len(stack) + 1) .. op.invoked[n].depth :
         IsPrefix(op.preListeners, LoopCallbacks(d))

ViewsHolding(project) ==
  Count(assignedProjects["active"], project)
    + Count(assignedProjects["finished"], project)

\* C36: with the active and the finished list subscribed, in this order,
\* before any project is created: whenever no broadcast is running, every
\* project of the store is in the view of exactly one list and the views
\* hold nothing else; between the two lists' calls in the broadcast of a
\* moveProject, the project moved to Finished is in neither view and the
\* project moved to Active is in both.
ListsPartitionStore ==
  /\ Idle =>
       /\ \A k \in 1 .. Len(projects) : ViewsHolding(projects[k]) = 1
       /\ Len(assignedProjects["active"]) + Len(assignedProjects["finished"])
            = Len(projects)
  /\ (~Idle /\ op.kind = "moveProject" /\ Len(op.invoked) = 1) =>
       LET moved == Find(op.preProjects, op.preHeap, op.projectId)
       IN /\ moved # Undefined
          /\ ViewsHolding(moved) = IF op.newStatus = Finished THEN 0 ELSE 2

\* A project that had been moved to Finished is moved back to Active: the
\* active list has been called and shows it, the finished list, not yet
\* called, still shows it.
ListsPartitionStoreWitness ==
  /\ ~Idle
  /\ op.kind = "moveProject"
  /\ op.newStatus = Active
  /\ Len(op.invoked) = 1
  /\ ViewsHolding(Find(op.preProjects, op.preHeap, op.projectId)) = 2

\* C37: for a project the lookup finds with status s, moveProject(id,
\* other) followed by moveProject(id, s) leaves the store with the (id,
\* status) sequence it had before the two calls, and the two calls run
\* exactly two broadcasts.
RoundTripRestores ==
  (Idle /\ event.type = "moveProject back") =>
    /\ View(projects, heap) = event.before.view
    /\ nBroadcast = event.before.broadcasts + 2

\* The second of two projects was moved to Finished and back to Active, and
\* both calls have returned.
RoundTripRestoresWitness ==
  /\ Idle
  /\ event.type = "moveProject back"
  /\ Len(projects) = 2
  /\ op.projectId = heap[projects[2]].id
  /\ heap[projects[1]].id # op.projectId
  /\ op.newStatus = Active
  /\ nBroadcast = 4

====
